---- MODULE Spec2Model ----
(***************************************************************************)
(* A model of ezid-client-tools: the batch registration script             *)
(* (batch-register3.py) and the ANVL helpers of ezid_client_tools.utils.    *)
(*                                                                         *)
(* Strings are sequences of Unicode code points (naturals), so that the    *)
(* escaping, percent-decoding, trimming and line splitting are computed    *)
(* character by character as the code computes them.                      *)
(***************************************************************************)
EXTENDS Integers, Sequences, FiniteSets, TLC

VARIABLES
    pc,             \* position of the run being modelled
    \* the ANVL codec
    impl,           \* which copy of utils.py decodes: "packaged" or "legacy"
    record,         \* the dict handed to to_anvl: a sequence of <<key, value>>
    anvl,           \* the UTF-8 bytes of an ANVL text
    metadata,       \* the LastUpdatedOrderedDict parse_anvl_str returns
    \* the tree builder
    datacite_root,  \* the document: None or Some(element)
    calls,          \* the set_datacite_value calls made so far: [path, value]
    before,         \* the document before the last call
    raised,         \* the exception the last call raised, "" when it returned
    \* interpolate
    the_expression, \* the expression of a mapping
    the_row,        \* the input row: a sequence of strings
    interpolated,   \* what interpolate returned or raised: [exc, val]
    \* main and process_input
    run_args,       \* args: operation, credentials, shoulder, previewMode,
                    \* removeIdMapping, columns (the -o string), outputColumns
    run_mappings,   \* the loaded mappings: <<destination, expression>> pairs
    input_rows,     \* the rows of the input file
    record_num,     \* rows read so far
    num_columns,    \* the width of the first row
    cur_record,     \* the record transform_data returned for the current row
    cur_root,       \* the document transform_data built for the current row
    outcome,        \* what process_record returned: [identifier, error]
    sunk,           \* the requests sent for registration: [n, data]
    stdout,         \* what was written to standard output: [n, kind, val]
    failure         \* the exception main caught: [raised_by, message, record, line]

anvlVars == <<impl, record, anvl, metadata>>
treeVars == <<datacite_root, calls, before, raised>>
interpVars == <<the_expression, the_row, interpolated>>
runVars == <<run_args, run_mappings, input_rows, record_num, num_columns,
             cur_record, cur_root, outcome, sunk, stdout, failure>>
vars == <<pc, anvlVars, treeVars, interpVars, runVars>>

\* Python's None, and a value that is present: an optional value is a
\* sequence of length 0 or 1
None == <<>>
Some(x) == <<x>>

----------------------------------------------------------------------------
(* Generic helpers over sequences.                                         *)

RECURSIVE Concat(_)
Concat(ss) ==
    IF Len(ss) = 0 THEN <<>>
    ELSE IF Len(ss) = 1 THEN ss[1]
    ELSE LET h == Len(ss) \div 2
         IN  Concat(SubSeq(ss, 1, h)) \o Concat(SubSeq(ss, h + 1, Len(ss)))

Range(s) == {s[i] : i \in 1..Len(s)}

\* all sequences over S of length lo..hi
SeqsOf(S, lo, hi) == UNION {[1..n -> S] : n \in lo..hi}

----------------------------------------------------------------------------
(* Python str primitives used by the code.                                 *)

\* str.isspace(): the characters str.strip() removes
Whitespace ==
    (9..13) \cup (28..32) \cup {133, 160, 5760} \cup (8192..8202)
        \cup {8232, 8233, 8239, 8287, 12288}

\* the characters str.splitlines() breaks lines at
LineBoundaries == {10, 11, 12, 13, 28, 29, 30, 133, 8232, 8233}

RECURSIVE lstrip(_)
lstrip(s) ==
    IF s # <<>> /\ Head(s) \in Whitespace THEN lstrip(Tail(s)) ELSE s

RECURSIVE rstrip(_)
rstrip(s) ==
    IF s # <<>> /\ s[Len(s)] \in Whitespace
    THEN rstrip(SubSeq(s, 1, Len(s) - 1))
    ELSE s

strip(s) == rstrip(lstrip(s))

\* str.splitlines(): "\r\n" is one boundary; no empty last line
RECURSIVE splitlines_from(_, _)
splitlines_from(s, cur) ==
    IF s = <<>> THEN (IF cur = <<>> THEN <<>> ELSE <<cur>>)
    ELSE IF Head(s) = 13 /\ Len(s) >= 2 /\ s[2] = 10
         THEN <<cur>> \o splitlines_from(Tail(Tail(s)), <<>>)
    ELSE IF Head(s) \in LineBoundaries
         THEN <<cur>> \o splitlines_from(Tail(s), <<>>)
    ELSE splitlines_from(Tail(s), Append(cur, Head(s)))

splitlines(s) == splitlines_from(s, <<>>)

\* str.split(sep) for a one-character separator: every piece
RECURSIVE split_from(_, _, _)
split_from(s, sep, cur) ==
    IF s = <<>> THEN <<cur>>
    ELSE IF Head(s) = sep THEN <<cur>> \o split_from(Tail(s), sep, <<>>)
    ELSE split_from(Tail(s), sep, Append(cur, Head(s)))

split(s, sep) == split_from(s, sep, <<>>)

\* index of the first occurrence of c in s, 0 when there is none
RECURSIVE find_char(_, _, _)
find_char(s, c, i) ==
    IF i > Len(s) THEN 0
    ELSE IF s[i] = c THEN i
    ELSE find_char(s, c, i + 1)

\* str.split(sep, maxsplit=1)
split_once(s, sep) ==
    LET i == find_char(s, sep, 1)
    IN  IF i = 0 THEN <<s>>
        ELSE <<SubSeq(s, 1, i - 1), SubSeq(s, i + 1, Len(s))>>

\* str comparison: lexicographic by code point
RECURSIVE str_less(_, _)
str_less(a, b) ==
    IF b = <<>> THEN FALSE
    ELSE IF a = <<>> THEN TRUE
    ELSE IF Head(a) # Head(b) THEN Head(a) < Head(b)
    ELSE str_less(Tail(a), Tail(b))

\* str.encode("UTF-8") for code points below 65536
utf8_encode(s) ==
    Concat([i \in 1..Len(s) |->
               LET c == s[i]
               IN  IF c < 128 THEN <<c>>
                   ELSE IF c < 2048 THEN <<192 + (c \div 64), 128 + (c % 64)>>
                   ELSE <<224 + (c \div 4096), 128 + ((c \div 64) % 64),
                          128 + (c % 64)>>])

\* bytes.decode("UTF-8") of well-formed input
RECURSIVE utf8_decode(_)
utf8_decode(b) ==
    IF b = <<>> THEN <<>>
    ELSE IF b[1] < 128 THEN <<b[1]>> \o utf8_decode(Tail(b))
    ELSE IF b[1] < 224
         THEN <<(b[1] - 192) * 64 + (b[2] - 128)>> \o utf8_decode(SubSeq(b, 3, Len(b)))
    ELSE <<(b[1] - 224) * 4096 + (b[2] - 128) * 64 + (b[3] - 128)>>
             \o utf8_decode(SubSeq(b, 4, Len(b)))

----------------------------------------------------------------------------
(* Python dict / LastUpdatedOrderedDict: a sequence of <<key, value>> in   *)
(* insertion order, keys distinct.                                         *)

dict_keys(d) == {d[i][1] : i \in 1..Len(d)}

dict_get(d, k) == (CHOOSE i \in 1..Len(d) : d[i][1] = k) \* index
dict_value(d, k) == d[dict_get(d, k)][2]

dict_del(d, k) == SelectSeq(d, LAMBDA e : e[1] # k)

\* dict.__setitem__: an existing key keeps its position
dict_set(d, k, v) ==
    IF k \in dict_keys(d)
    THEN [i \in 1..Len(d) |-> IF d[i][1] = k THEN <<k, v>> ELSE d[i]]
    ELSE Append(d, <<k, v>>)

\* LastUpdatedOrderedDict.__setitem__: delete, then insert at the end
LastUpdatedOrderedDict_setitem(d, k, v) ==
    Append(IF k \in dict_keys(d) THEN dict_del(d, k) ELSE d, <<k, v>>)

\* sorted(record.items()): keys are distinct, so the key decides
RECURSIVE sorted_items(_)
sorted_items(d) ==
    IF d = <<>> THEN <<>>
    ELSE LET m == CHOOSE i \in 1..Len(d) :
                      \A j \in 1..Len(d) : j = i \/ str_less(d[i][1], d[j][1])
         IN  <<d[m]>> \o sorted_items(dict_del(d, d[m][1]))

----------------------------------------------------------------------------
(* ANVL: to_anvl of batch-register3.py, parse_anvl_str of utils.py.        *)

hex_digit(n) == IF n < 10 THEN 48 + n ELSE 55 + n

\* "%%%02X" % ord(c)
percent_escape(c) == <<37, hex_digit(c \div 16), hex_digit(c % 16)>>

escape(s, colon_too) ==
    LET pattern == IF colon_too THEN {37, 58, 13, 10} ELSE {37, 13, 10}
    IN  Concat([i \in 1..Len(s) |->
                   IF s[i] \in pattern THEN percent_escape(s[i]) ELSE <<s[i]>>])

to_anvl(rec) ==
    LET items == sorted_items(rec)
    IN  Concat([i \in 1..Len(items) |->
            escape(items[i][1], TRUE) \o <<58, 32>>
                \o escape(items[i][2], FALSE) \o <<10>>])

is_hex(c) == c \in (48..57) \cup (65..70) \cup (97..102)

hex_value(c) ==
    IF c \in 48..57 THEN c - 48
    ELSE IF c \in 65..70 THEN c - 55
    ELSE c - 87

RECURSIVE unescape_anvl(_)
unescape_anvl(s) ==
    IF s = <<>> THEN <<>>
    ELSE IF Head(s) = 37 /\ Len(s) >= 3 /\ is_hex(s[2]) /\ is_hex(s[3])
         THEN <<16 * hex_value(s[2]) + hex_value(s[3])>>
                  \o unescape_anvl(SubSeq(s, 4, Len(s)))
    ELSE <<Head(s)>> \o unescape_anvl(Tail(s))

\* the body of the loop of parse_anvl_str, given how the line was split
parse_anvl_line(md, line_ex) ==
    IF Len(line_ex) > 1
    THEN LET esc_key == strip(line_ex[1])
             esc_value == strip(line_ex[2])
             key == strip(unescape_anvl(esc_key))
             value == strip(unescape_anvl(esc_value))
         IN  IF Len(key) > 0 /\ Len(value) > 0
             THEN LastUpdatedOrderedDict_setitem(md, key, value)
             ELSE md
    ELSE md

\* src/ezid_client_tools/utils.py: anvl_line.split(":", maxsplit=1)
RECURSIVE parse_anvl_lines(_, _)
parse_anvl_lines(md, lines) ==
    IF lines = <<>> THEN md
    ELSE parse_anvl_lines(
             IF 58 \in Range(Head(lines))
             THEN parse_anvl_line(md, split_once(Head(lines), 58))
             ELSE md,
             Tail(lines))

parse_anvl_str(bytes) == parse_anvl_lines(<<>>, splitlines(utf8_decode(bytes)))

\* the copy outside the package: anvl_line.split(":")
RECURSIVE parse_anvl_lines_legacy(_, _)
parse_anvl_lines_legacy(md, lines) ==
    IF lines = <<>> THEN md
    ELSE parse_anvl_lines_legacy(
             IF 58 \in Range(Head(lines))
             THEN parse_anvl_line(md, split(Head(lines), 58))
             ELSE md,
             Tail(lines))

parse_anvl_str_legacy(bytes) ==
    parse_anvl_lines_legacy(<<>>, splitlines(utf8_decode(bytes)))

----------------------------------------------------------------------------
(* Python values as the user-supplied functions return them, tagged with   *)
(* their type.                                                             *)

Str(s) == [type |-> "str", val |-> s]
Tuple(items) == [type |-> "tuple", val |-> items]
List(items) == [type |-> "list", val |-> items]
PyNone == [type |-> "NoneType", val |-> <<>>]

----------------------------------------------------------------------------
(* The DataCite document: xml.etree.ElementTree elements.                  *)

\* "{http://datacite.org/schema/kernel-4}"
NS ==
    <<123, 104, 116, 116, 112, 58, 47, 47, 100, 97, 116, 97, 99, 105, 116,
    101, 46, 111, 114, 103, 47, 115, 99, 104, 101, 109, 97, 47, 107, 101,
    114, 110, 101, 108, 45, 52, 125>>

\* "{http://www.w3.org/2001/XMLSchema-instance}schemaLocation"
SCHEMA_LOCATION ==
    <<123, 104, 116, 116, 112, 58, 47, 47, 119, 119, 119, 46, 119, 51, 46,
    111, 114, 103, 47, 50, 48, 48, 49, 47, 88, 77, 76, 83, 99, 104, 101,
    109, 97, 45, 105, 110, 115, 116, 97, 110, 99, 101, 125, 115, 99, 104,
    101, 109, 97, 76, 111, 99, 97, 116, 105, 111, 110>>

\* the schemaLocation value
SCHEMA_LOCATION_VALUE ==
    <<104, 116, 116, 112, 58, 47, 47, 100, 97, 116, 97, 99, 105, 116, 101,
    46, 111, 114, 103, 47, 115, 99, 104, 101, 109, 97, 47, 107, 101, 114,
    110, 101, 108, 45, 52, 32, 104, 116, 116, 112, 58, 47, 47, 115, 99,
    104, 101, 109, 97, 46, 100, 97, 116, 97, 99, 105, 116, 101, 46, 111,
    114, 103, 47, 109, 101, 116, 97, 47, 107, 101, 114, 110, 101, 108, 45,
    52, 47, 109, 101, 116, 97, 100, 97, 116, 97, 46, 120, 115, 100>>

\* "resource"
RESOURCE ==
    <<114, 101, 115, 111, 117, 114, 99, 101>>

\* "identifier"
IDENTIFIER ==
    <<105, 100, 101, 110, 116, 105, 102, 105, 101, 114>>

\* "identifierType"
IDENTIFIER_TYPE ==
    <<105, 100, 101, 110, 116, 105, 102, 105, 101, 114, 84, 121, 112,
    101>>

\* "(:tba)"
TBA ==
    <<40, 58, 116, 98, 97, 41>>

\* "titles"
TITLES ==
    <<116, 105, 116, 108, 101, 115>>

\* "title"
TITLE ==
    <<116, 105, 116, 108, 101>>

\* "lang"
LANG ==
    <<108, 97, 110, 103>>


\* ET.Element(tag): no attributes, no text, no children
Element(tag) == [tag |-> tag, attrib |-> <<>>, text |-> None, children |-> <<>>]

\* q of set_datacite_value: the tag in the DataCite namespace
q(tag) == NS \o tag

\* the root set_datacite_value creates when there is no document yet
new_resource ==
    [tag |-> q(RESOURCE),
     attrib |-> <<<<SCHEMA_LOCATION, SCHEMA_LOCATION_VALUE>>>>,
     text |-> None,
     children |-> <<[tag |-> q(IDENTIFIER),
                     attrib |-> <<<<IDENTIFIER_TYPE, TBA>>>>,
                     text |-> Some(TBA),
                     children |-> <<>>]>>]

\* \w of the regular expressions, for ASCII
is_word(c) == c \in (48..57) \cup (65..90) \cup (97..122) \cup {95}

is_words(s) == s # <<>> /\ \A i \in 1..Len(s) : is_word(s[i])

\* re.match(r'(\w+|[.])(/(\w+|[.]))*(@\w+)?$', s); '$' also matches before a
\* newline that ends the string
match_relative_xpath(s) ==
    LET body == IF s # <<>> /\ s[Len(s)] = 10 THEN SubSeq(s, 1, Len(s) - 1) ELSE s
        at == find_char(body, 64, 1)
        steps == split(IF at = 0 THEN body ELSE SubSeq(body, 1, at - 1), 47)
    IN  /\ \A i \in 1..Len(steps) : steps[i] = <<46>> \/ is_words(steps[i])
        /\ at # 0 => is_words(SubSeq(body, at + 1, Len(body)))

\* a find that never matches: every path element creates a new child
find_nothing(node, tag) == 0

\* element.find(tag): the index of the first direct child with that tag, 0
\* when there is none
find(node, tag) ==
    IF \E i \in 1..Len(node.children) : node.children[i].tag = tag
    THEN CHOOSE i \in 1..Len(node.children) :
             /\ node.children[i].tag = tag
             /\ \A j \in 1..(i - 1) : node.children[j].tag # tag
    ELSE 0

\* the two asserts on a list value (lines 118 and 119)
valid_list(items) ==
    /\ \A i \in 1..Len(items) :
           /\ items[i].type = "tuple"
           /\ Len(items[i].val) = 2
           /\ items[i].val[1].type = "str"
    /\ \A i \in 1..Len(items) : match_relative_xpath(items[i].val[1].val)

\* The result of a call: the document as the call leaves it (elements are
\* changed in place, so what was built before an assert failed stays) and
\* the exception raised, "" when the call returns.
Returned(node) == [node |-> node, exc |-> ""]
Raised(node, exc) == [node |-> node, exc |-> exc]

RECURSIVE set_datacite_value(_, _, _)
RECURSIVE descend(_, _, _, _)
RECURSIVE set_each(_, _)

\* lines 147-155: the node the path leads to receives the value
set_final(current_node, attribute, value) ==
    IF attribute # None /\ attribute[1] # <<>>
    THEN IF value.type # "str"
         THEN Raised(current_node, "AssertionError")
         ELSE Returned([current_node EXCEPT
                           !.attrib = dict_set(@, attribute[1], value.val)])
    ELSE IF value.type = "str"
         THEN Returned([current_node EXCEPT !.text = Some(value.val)])
         ELSE set_each(current_node, value.val)

\* lines 154-155: for relpath, v in value: set_datacite_value(current_node, relpath, v)
set_each(current_node, items) ==
    IF items = <<>> THEN Returned(current_node)
    ELSE LET r == set_datacite_value(Some(current_node), Head(items).val[1].val,
                                     Head(items).val[2])
         IN  IF r.exc # "" THEN Raised(r.node[1], r.exc)
             ELSE set_each(r.node[1], Tail(items))

\* lines 138-145: walk the path elements, reusing the first child of that
\* name or creating one
descend(current_node, path_elements, attribute, value) ==
    IF path_elements = <<>> THEN set_final(current_node, attribute, value)
    ELSE IF Head(path_elements) = <<46>>
         THEN descend(current_node, Tail(path_elements), attribute, value)
    ELSE LET i == find(current_node, q(Head(path_elements)))
         IN  IF i # 0
             THEN LET r == descend(current_node.children[i], Tail(path_elements),
                                   attribute, value)
                  IN  [node |-> [current_node EXCEPT !.children[i] = r.node],
                       exc |-> r.exc]
             ELSE LET r == descend(Element(q(Head(path_elements))),
                                   Tail(path_elements), attribute, value)
                  IN  [node |-> [current_node EXCEPT
                                    !.children = Append(@, r.node)],
                       exc |-> r.exc]

\* lines 127-157, once the value is known to be a list or a non-empty string
set_checked_value(node, path, value) ==
    LET parts == split(path, 64)
        attribute == IF Len(parts) > 1 THEN Some(parts[Len(parts)]) ELSE None
        path_elements == split(parts[1], 47)
        r == descend(IF node = None THEN new_resource ELSE node[1],
                     path_elements, attribute, value)
    IN  \* a root created by a call that raises never reaches the caller
        IF r.exc # "" /\ node = None THEN Raised(None, r.exc)
        ELSE [node |-> Some(r.node), exc |-> r.exc]

\* set_datacite_value without the early return on an empty string
set_datacite_value_writes_empty(node, path, value) ==
    LET v == IF value.type = "tuple" THEN List(<<value>>) ELSE value
    IN  IF v.type = "list"
        THEN IF valid_list(v.val) THEN set_checked_value(node, path, v)
             ELSE Raised(node, "AssertionError")
        ELSE IF v.type = "str"
        THEN set_checked_value(node, path, Str(strip(v.val)))
        ELSE Raised(node, "AssertionError")

set_datacite_value(node, path, value) ==
    LET v == IF value.type = "tuple" THEN List(<<value>>) ELSE value
    IN  IF v.type = "list"
        THEN IF valid_list(v.val) THEN set_checked_value(node, path, v)
             ELSE Raised(node, "AssertionError")
        ELSE IF v.type = "str"
        THEN IF strip(v.val) = <<>> THEN Returned(node)
             ELSE set_checked_value(node, path, Str(strip(v.val)))
        ELSE Raised(node, "AssertionError")

----------------------------------------------------------------------------
(* The user-supplied module "functions" that interpolate imports: what a   *)
(* function returns for its arguments, or the exception it raises.  The    *)
(* registry modelled here holds three functions; any other name is an      *)
(* AttributeError of getattr.                                              *)

\* s(x) returns the string x + "!"; t(x) returns the tuple ("title", x);
\* e(x) raises ValueError for x = "b" and returns x otherwise
call_function(function_name, function_args) ==
    IF function_name = <<115>>
    THEN [exc |-> "", val |-> Str(function_args[1] \o <<33>>)]
    ELSE IF function_name = <<116>>
    THEN [exc |-> "", val |-> Tuple(<<Str(TITLE), Str(function_args[1])>>)]
    ELSE IF function_name = <<101>>
    THEN IF function_args[1] = <<98>> THEN [exc |-> "ValueError", val |-> PyNone]
         ELSE [exc |-> "", val |-> Str(function_args[1])]
    ELSE [exc |-> "AttributeError", val |-> PyNone]

----------------------------------------------------------------------------
(* interpolate: re.sub over the expression with replace_match.             *)

is_digit(c) == c \in 48..57

is_name_char(c) == c \in (65..90) \cup (97..122) \cup {95}

\* how many characters from position i on are digits / name characters
RECURSIVE digits_at(_, _)
digits_at(s, i) ==
    IF i <= Len(s) /\ is_digit(s[i]) THEN 1 + digits_at(s, i + 1) ELSE 0

RECURSIVE name_chars_at(_, _)
name_chars_at(s, i) ==
    IF i <= Len(s) /\ is_name_char(s[i]) THEN 1 + name_chars_at(s, i + 1) ELSE 0

\* The length of the match of
\*   \$[0-9]+|\$\{[0-9]+\}|\$\{[0-9]+:[a-zA-Z_]+\}|\$\$
\* at position i, 0 when there is none.
match_at(s, i) ==
    IF s[i] # 36 THEN 0
    ELSE IF digits_at(s, i + 1) > 0 THEN 1 + digits_at(s, i + 1)
    ELSE IF i + 1 <= Len(s) /\ s[i + 1] = 123 /\ digits_at(s, i + 2) > 0
         THEN LET j == i + 2 + digits_at(s, i + 2)     \* after the digits
                  k == j + 1 + name_chars_at(s, j + 1) \* after the name
              IN  IF j <= Len(s) /\ s[j] = 125 THEN j - i + 1
                  ELSE IF /\ j <= Len(s) /\ s[j] = 58
                          /\ name_chars_at(s, j + 1) > 0
                          /\ k <= Len(s) /\ s[k] = 125
                       THEN k - i + 1
                  ELSE 0
    ELSE IF i + 1 <= Len(s) /\ s[i + 1] = 36 THEN 2
    ELSE 0

\* int(s) of a string of ASCII digits
RECURSIVE to_int(_)
to_int(s) ==
    IF s = <<>> THEN 0 ELSE 10 * to_int(SubSeq(s, 1, Len(s) - 1)) + (s[Len(s)] - 48)

\* row[index]: a negative index counts from the end
list_getitem(row, index) ==
    IF 0 <= index /\ index < Len(row) THEN [exc |-> "", val |-> Str(row[index + 1])]
    ELSE IF index < 0 /\ index + Len(row) >= 0
         THEN [exc |-> "", val |-> Str(row[index + Len(row) + 1])]
    ELSE [exc |-> "IndexError", val |-> PyNone]

\* replace_match: what the callback returns for one match (PyNone when it
\* falls off its end), or the exception it raises
replace_match(match_str, expression, row) ==
    LET returned(result) ==
            IF result.exc # "" THEN [exc |-> "AssertionError", val |-> PyNone]
            ELSE IF result.val.type = "str" THEN result
            ELSE IF match_str = expression THEN result
            ELSE [exc |-> "", val |-> PyNone]
        called(function_name, function_arg) ==
            IF function_arg.exc # "" THEN function_arg
            ELSE returned(call_function(function_name, <<function_arg.val.val>>))
        braced(parts) ==
            IF Len(parts) > 1
            THEN called(parts[2],
                        list_getitem(row, to_int(split(parts[1], 44)[1]) - 1))
            ELSE list_getitem(row, to_int(parts[1]) - 1)
    IN  IF match_str = <<36, 36>> THEN [exc |-> "", val |-> Str(<<36>>)]
        ELSE IF Len(match_str) >= 2 /\ match_str[2] = 123
        THEN braced(split(SubSeq(match_str, 3, Len(match_str) - 1), 58))
        ELSE list_getitem(row, to_int(Tail(match_str)) - 1)

\* re.sub: the pieces of the result, left to right; the first exception a
\* callback raises ends the scan
RECURSIVE sub_from(_, _, _)
sub_from(expression, row, i) ==
    LET joined(piece, rest) ==
            IF piece.exc # "" THEN [exc |-> piece.exc, pieces |-> <<>>]
            ELSE IF rest.exc # "" THEN rest
            ELSE [exc |-> "", pieces |-> <<piece.val>> \o rest.pieces]
        scanned(n) ==
            joined(IF n = 0 THEN [exc |-> "", val |-> Str(<<expression[i]>>)]
                   ELSE replace_match(SubSeq(expression, i, i + n - 1),
                                      expression, row),
                   sub_from(expression, row, IF n = 0 THEN i + 1 ELSE i + n))
    IN  IF i > Len(expression) THEN [exc |-> "", pieces |-> <<>>]
        ELSE scanned(match_at(expression, i))

\* interpolate(expression, row): re.sub drops a None the callback returns
\* and raises TypeError when joining anything else that is not a str
interpolate(expression, row) ==
    LET substituted(r) ==
            IF r.exc # "" THEN [exc |-> r.exc, val |-> PyNone]
            ELSE IF \E i \in 1..Len(r.pieces) :
                        r.pieces[i].type \notin {"str", "NoneType"}
            THEN [exc |-> "TypeError", val |-> PyNone]
            ELSE [exc |-> "",
                  val |-> Str(strip(Concat([i \in 1..Len(r.pieces) |->
                              IF r.pieces[i].type = "str" THEN r.pieces[i].val
                              ELSE <<>>])))]
    IN  substituted(sub_from(expression, row, 1))

----------------------------------------------------------------------------
(* ET.tostring(datacite_root).decode("UTF-8"): the document as text.       *)

\* the namespace declarations ET.tostring writes on the root
XMLNS_DECLARATIONS ==
    <<32, 120, 109, 108, 110, 115, 58, 110, 115, 48, 61, 34, 104, 116,
    116, 112, 58, 47, 47, 100, 97, 116, 97, 99, 105, 116, 101, 46, 111,
    114, 103, 47, 115, 99, 104, 101, 109, 97, 47, 107, 101, 114, 110, 101,
    108, 45, 52, 34, 32, 120, 109, 108, 110, 115, 58, 120, 115, 105, 61,
    34, 104, 116, 116, 112, 58, 47, 47, 119, 119, 119, 46, 119, 51, 46,
    111, 114, 103, 47, 50, 48, 48, 49, 47, 88, 77, 76, 83, 99, 104, 101,
    109, 97, 45, 105, 110, 115, 116, 97, 110, 99, 101, 34>>

\* "{http://www.w3.org/2001/XMLSchema-instance}"
XSI_NS ==
    <<123, 104, 116, 116, 112, 58, 47, 47, 119, 119, 119, 46, 119, 51, 46,
    111, 114, 103, 47, 50, 48, 48, 49, 47, 88, 77, 76, 83, 99, 104, 101,
    109, 97, 45, 105, 110, 115, 116, 97, 110, 99, 101, 125>>

\* "ARK"
ARK == <<65, 82, 75>>

\* "DOI"
DOI == <<68, 79, 73>>

\* "ark:/"
ARK_PREFIX == <<97, 114, 107, 58, 47>>

\* "datacite"
DATACITE == <<100, 97, 116, 97, 99, 105, 116, 101>>

\* "_id"
UNDERSCORE_ID == <<95, 105, 100>>

\* "_n"
UNDERSCORE_N == <<95, 110>>

\* "_error"
UNDERSCORE_ERROR == <<95, 101, 114, 114, 111, 114>>


starts_with(s, prefix) ==
    Len(s) >= Len(prefix) /\ SubSeq(s, 1, Len(prefix)) = prefix

\* str(n) of a natural number
RECURSIVE decimal(_)
decimal(n) == IF n < 10 THEN <<48 + n>> ELSE decimal(n \div 10) \o <<48 + (n % 10)>>

\* the us-ascii encoding with xmlcharrefreplace
ascii(c) == IF c < 128 THEN <<c>> ELSE <<38, 35>> \o decimal(c) \o <<59>>

\* _escape_cdata: & < >
RECURSIVE escape_cdata(_)
escape_cdata(text) ==
    IF text = <<>> THEN <<>>
    ELSE (CASE Head(text) = 38 -> <<38, 97, 109, 112, 59>>
            [] Head(text) = 60 -> <<38, 108, 116, 59>>
            [] Head(text) = 62 -> <<38, 103, 116, 59>>
            [] OTHER -> ascii(Head(text))) \o escape_cdata(Tail(text))

\* _escape_attrib: & < > " CR LF TAB
RECURSIVE escape_attrib(_)
escape_attrib(text) ==
    IF text = <<>> THEN <<>>
    ELSE (CASE Head(text) = 38 -> <<38, 97, 109, 112, 59>>
            [] Head(text) = 60 -> <<38, 108, 116, 59>>
            [] Head(text) = 62 -> <<38, 103, 116, 59>>
            [] Head(text) = 34 -> <<38, 113, 117, 111, 116, 59>>
            [] Head(text) = 13 -> <<38, 35, 49, 51, 59>>
            [] Head(text) = 10 -> <<38, 35, 49, 48, 59>>
            [] Head(text) = 9 -> <<38, 35, 48, 57, 59>>
            [] OTHER -> ascii(Head(text))) \o escape_attrib(Tail(text))

\* the prefixed name of a tag or attribute key: ns0 for the DataCite
\* namespace (the root's, met first), xsi for XMLSchema-instance
qname(name) ==
    IF starts_with(name, NS)
    THEN <<110, 115, 48, 58>> \o SubSeq(name, Len(NS) + 1, Len(name))
    ELSE IF starts_with(name, XSI_NS)
    THEN <<120, 115, 105, 58>> \o SubSeq(name, Len(XSI_NS) + 1, Len(name))
    ELSE name

RECURSIVE serialize_xml(_, _)
serialize_xml(elem, namespaces) ==
    LET tag == qname(elem.tag)
        attributes == Concat([i \in 1..Len(elem.attrib) |->
                         <<32>> \o qname(elem.attrib[i][1]) \o <<61, 34>>
                             \o escape_attrib(elem.attrib[i][2]) \o <<34>>])
    IN  <<60>> \o tag \o namespaces \o attributes
            \o (IF elem.text # None \/ elem.children # <<>>
                THEN <<62>>
                         \o (IF elem.text # None THEN escape_cdata(elem.text[1])
                             ELSE <<>>)
                         \o Concat([i \in 1..Len(elem.children) |->
                                serialize_xml(elem.children[i], <<>>)])
                         \o <<60, 47>> \o tag \o <<62>>
                ELSE <<32, 47, 62>>)

tostring(root) == serialize_xml(root, XMLNS_DECLARATIONS)

----------------------------------------------------------------------------
(* transform_data: the mappings applied to one row.                        *)

\* mappings.index((destination, expression)) + 1
index_of(mappings, rule) == CHOOSE i \in 1..Len(mappings) :
    mappings[i] = rule /\ \A j \in 1..(i - 1) : mappings[j] # rule

\* datacite_root.findall("*[@identifierType]"): the direct children that
\* carry the attribute, as indexes
findall_identifierType(root) ==
    SelectSeq([i \in 1..Len(root.children) |-> i],
              LAMBDA i : IDENTIFIER_TYPE \in dict_keys(root.children[i].attrib))

\* lines 175-184: the mappings from the i-th on.  The result: the metadata,
\* the document, and the exception that ended the loop ("" when none) with
\* the mapping line an AssertionError is reported for.
RECURSIVE apply_mappings(_, _, _, _, _)
apply_mappings(mappings, row, i, md, root) ==
    LET destination == mappings[i][1]
        line == index_of(mappings, mappings[i])
        assigned(r) ==
            IF r.exc # ""
            THEN [exc |-> r.exc, line |-> line, md |-> md, root |-> r.node]
            ELSE apply_mappings(mappings, row, i + 1, md, r.node)
        mapped(interpolated_value) ==
            IF interpolated_value.exc # ""
            THEN [exc |-> interpolated_value.exc,
                  line |-> IF interpolated_value.exc = "AssertionError"
                           THEN line ELSE 0,
                  md |-> md, root |-> root]
            ELSE IF starts_with(destination, <<47>>)
            THEN assigned(set_datacite_value(root, destination,
                                             interpolated_value.val))
            ELSE IF interpolated_value.val.type # "str"
            THEN [exc |-> "AssertionError", line |-> line, md |-> md,
                  root |-> root]
            ELSE apply_mappings(mappings, row, i + 1,
                                dict_set(md, destination,
                                         interpolated_value.val.val),
                                root)
    IN  IF i > Len(mappings) THEN [exc |-> "", line |-> 0, md |-> md, root |-> root]
        ELSE mapped(interpolate(mappings[i][2], row))

\* transform_data(args, mappings, row): [exc, line, md, root]
transform_data(args, mappings, row) ==
    LET typed(r, root, identifier_type) ==
            [r EXCEPT !.root = Some([root EXCEPT
                          !.children[findall_identifierType(root)[1]].attrib =
                              dict_set(@, IDENTIFIER_TYPE, identifier_type)])]
        serialized(r) == [r EXCEPT !.md = dict_set(@, DATACITE, tostring(r.root[1]))]
        finalized(r) ==
            IF r.exc # "" \/ r.root = None THEN r
            ELSE IF args.operation # "mint" /\ UNDERSCORE_ID \notin dict_keys(r.md)
            THEN [r EXCEPT !.exc = "KeyError"]
            ELSE IF findall_identifierType(r.root[1]) = <<>>
            THEN [r EXCEPT !.exc = "IndexError"]
            ELSE serialized(typed(r, r.root[1],
                     IF starts_with(IF args.operation = "mint" THEN args.shoulder[1]
                                    ELSE dict_value(r.md, UNDERSCORE_ID),
                                    ARK_PREFIX)
                     THEN ARK ELSE DOI))
    IN  finalized(apply_mappings(mappings, row, 1, <<>>, None))

----------------------------------------------------------------------------
(* parse_output_columns, process_record and form_output_row.               *)

PyInt(n) == [type |-> "int", val |-> n]

\* str.isnumeric(), for ASCII
isnumeric(s) == s # <<>> /\ \A i \in 1..Len(s) : is_digit(s[i])

\* the loop of parse_output_columns over the columns from the i-th on
RECURSIVE parse_columns_from(_, _, _, _)
parse_columns_from(columns, mappings, i, output_columns) ==
    IF i > Len(columns) THEN [exc |-> "", val |-> output_columns]
    ELSE LET column == columns[i]
             elements == {mappings[j][1] : j \in {k \in 1..Len(mappings) :
                              ~starts_with(mappings[k][1], <<47>>)}}
         IN  IF column \in {UNDERSCORE_N, UNDERSCORE_ID, UNDERSCORE_ERROR}
             THEN parse_columns_from(columns, mappings, i + 1,
                                     Append(output_columns, Str(column)))
             ELSE IF isnumeric(column)
             THEN IF 1 <= to_int(column) /\ to_int(column) <= Len(mappings)
                  THEN parse_columns_from(columns, mappings, i + 1,
                           Append(output_columns, PyInt(to_int(column) - 1)))
                  ELSE [exc |-> "AssertionError", val |-> output_columns]
             ELSE IF column \in elements
             THEN parse_columns_from(columns, mappings, i + 1, output_columns)
             ELSE [exc |-> "AssertionError", val |-> output_columns]

parse_output_columns(columns, mappings) ==
    parse_columns_from(split(columns, 44), mappings, 1,
                       <<Str(UNDERSCORE_N), Str(UNDERSCORE_ID), Str(UNDERSCORE_ERROR)>>)

\* process_record up to the request: the identifier it starts from, the
\* record it leaves and the bytes it sends
process_record_request(args, rec) ==
    LET sent == IF args.operation = "mint"
                THEN IF args.removeIdMapping THEN dict_del(rec, UNDERSCORE_ID) ELSE rec
                ELSE dict_del(rec, UNDERSCORE_ID)
    IN  [identifier |-> IF args.operation = "mint" THEN None
                        ELSE Some(dict_value(rec, UNDERSCORE_ID)),
         rec |-> sent,
         data |-> utf8_encode(to_anvl(sent))]

\* "ark:/9/x": the identifier a "success: ark:/9/x" response names
ASSIGNED_IDENTIFIER == <<97, 114, 107, 58, 47, 57, 47, 120>>

\* "error: bad request": the body of an error response
ERROR_RESPONSE ==
    <<101, 114, 114, 111, 114, 58, 32, 98, 97, 100, 32, 114, 101, 113, 117,
    101, 115, 116>>

\* process_record from the response on: (identifier, error)
process_record_result(identifier, response) ==
    IF response = "success"
    THEN [identifier |-> Some(ASSIGNED_IDENTIFIER), error |-> None]
    ELSE [identifier |-> identifier, error |-> Some(ERROR_RESPONSE)]

\* x or ""
or_empty(x) == IF x = None THEN <<>> ELSE x[1]

\* the loop of form_output_row over the output columns from the i-th on
RECURSIVE output_row_from(_, _, _, _, _, _)
output_row_from(output_columns, i, row, rec, n, result) ==
    IF i > Len(output_columns) THEN [exc |-> "", val |-> <<>>]
    ELSE LET column == output_columns[i]
             rest == output_row_from(output_columns, i + 1, row, rec, n, result)
             field ==
                 IF column.type = "int" THEN list_getitem(row, column.val)
                 ELSE IF column.val = UNDERSCORE_N THEN [exc |-> "", val |-> Str(decimal(n))]
                 ELSE IF column.val = UNDERSCORE_ID
                 THEN [exc |-> "", val |-> Str(or_empty(result.identifier))]
                 ELSE IF column.val = UNDERSCORE_ERROR
                 THEN [exc |-> "", val |-> Str(or_empty(result.error))]
                 ELSE IF column.val \in dict_keys(rec)
                 THEN [exc |-> "", val |-> Str(dict_value(rec, column.val))]
                 ELSE [exc |-> "KeyError", val |-> PyNone]
         IN  IF field.exc # "" THEN [exc |-> field.exc, val |-> <<>>]
             ELSE IF rest.exc # "" THEN rest
             ELSE [exc |-> "", val |-> <<field.val.val>> \o rest.val]

form_output_row(args, row, rec, n, result) ==
    output_row_from(args.outputColumns, 1, row, rec, n, result)

----------------------------------------------------------------------------
(* The ANVL run: a record is encoded by to_anvl and sent as UTF-8 bytes    *)
(* (process_record), or a text is received from the server; the bytes are  *)
(* decoded by parse_anvl_str of one of the two copies of utils.py.         *)

MaxStrLen == 2      \* longest key or value of an encoded record
MaxTextLen == 5     \* longest received text

\* 'a' (also a hex digit), ':', '%', LF, CR, space
AnvlChars == {97, 58, 37, 10, 13, 32}

\* 'a', ':', '%', LF, space
TextChars == {97, 58, 37, 10, 32}

AnvlStrs == SeqsOf(AnvlChars, 1, MaxStrLen)

\* one entry of any key and value, or two entries of one-character strings
Records ==
    {<<>>}
        \cup {<<<<k, v>>>> : k \in AnvlStrs, v \in AnvlStrs}
        \cup {<<<<k1, v1>>, <<k2, v2>>>> :
                  k1 \in {<<97>>, <<58>>}, k2 \in {<<37>>, <<58, 97>>, <<10>>},
                  v1 \in SeqsOf(AnvlChars, 1, 1), v2 \in {<<97>>, <<58>>}}

Texts == SeqsOf(TextChars, 0, MaxTextLen)

decode(bytes) ==
    IF impl = "packaged" THEN parse_anvl_str(bytes)
    ELSE parse_anvl_str_legacy(bytes)

AnvlIdle ==
    /\ impl = "packaged"
    /\ record = <<>>
    /\ anvl = <<>>
    /\ metadata = <<>>

TreeIdle ==
    /\ datacite_root = None
    /\ calls = <<>>
    /\ before = None
    /\ raised = ""

InterpIdle ==
    /\ the_expression = <<>>
    /\ the_row = <<>>
    /\ interpolated = [exc |-> "", val |-> PyNone]

\* no exception has reached main's handler
NoFailure == [raised_by |-> "", message |-> "", record |-> 0, line |-> 0]

\* the state of process_input before the first row
RunStart ==
    /\ record_num = 0
    /\ num_columns = 0
    /\ cur_record = <<>>
    /\ cur_root = None
    /\ outcome = [identifier |-> None, error |-> None]
    /\ sunk = <<>>
    /\ stdout = <<>>
    /\ failure = NoFailure

RunIdle ==
    /\ run_args = [operation |-> "mint", credentials |-> None, shoulder |-> None,
                   previewMode |-> FALSE, removeIdMapping |-> FALSE,
                   columns |-> <<>>, outputColumns |-> <<>>]
    /\ run_mappings = <<>>
    /\ input_rows = <<>>
    /\ RunStart

InitAnvl ==
    /\ pc = "start"
    /\ impl \in {"packaged", "legacy"}
    /\ record \in Records
    /\ anvl = <<>>
    /\ metadata = <<>>
    /\ TreeIdle
    /\ InterpIdle
    /\ RunIdle

\* process_record: data = to_anvl(record).encode("UTF-8")
Encode ==
    /\ pc = "start"
    /\ record # <<>>
    /\ anvl' = utf8_encode(to_anvl(record))
    /\ pc' = "encoded"
    /\ UNCHANGED <<impl, record, metadata, treeVars, interpVars, runVars>>

\* a response text arrives (test_client_view: client.operation()[0].encode("utf-8"))
Receive ==
    /\ pc = "start"
    /\ record = <<>>
    /\ \E t \in Texts : anvl' = utf8_encode(t)
    /\ pc' = "received"
    /\ UNCHANGED <<impl, record, metadata, treeVars, interpVars, runVars>>

Decode ==
    /\ pc \in {"encoded", "received"}
    /\ metadata' = decode(anvl)
    /\ pc' = IF pc = "encoded" THEN "roundtrip" ELSE "decoded"
    /\ UNCHANGED <<impl, record, anvl, treeVars, interpVars, runVars>>

NextAnvl == Encode \/ Receive \/ Decode

SpecAnvl == InitAnvl /\ [][NextAnvl]_vars

----------------------------------------------------------------------------
(* The tree builder run: set_datacite_value is called on one document, as  *)
(* transform_data calls it for the path destinations of one row.  A call   *)
(* that raises ends the row.                                               *)

MaxAssigns == 2     \* calls made on one document

\* "/resource/titles/title", "/resource/titles/title@lang", "/resource/titles"
PATH_TITLE == <<47>> \o RESOURCE \o <<47>> \o TITLES \o <<47>> \o TITLE
PATH_TITLE_LANG == PATH_TITLE \o <<64>> \o LANG
PATH_TITLES == <<47>> \o RESOURCE \o <<47>> \o TITLES

TreePaths == {PATH_TITLE, PATH_TITLE_LANG, PATH_TITLES}

\* "T", "U", " U ", " ", "" and CR LF
StrValues == {Str(<<84>>), Str(<<85>>), Str(<<32, 85, 32>>), Str(<<32>>), Str(<<>>),
              Str(<<13, 10>>)}

\* ("title", "T"); [(".", "T"), ("title", "U")]; ("./title@lang", "T");
\* [("title", " ")]; ("titles//title", "T"), a malformed path; None
StructuredValues ==
    {Tuple(<<Str(TITLE), Str(<<84>>)>>),
     List(<<Tuple(<<Str(<<46>>), Str(<<84>>)>>), Tuple(<<Str(TITLE), Str(<<85>>)>>)>>),
     Tuple(<<Str(<<46, 47>> \o TITLE \o <<64>> \o LANG), Str(<<84>>)>>),
     List(<<Tuple(<<Str(TITLE), Str(<<32>>)>>)>>),
     Tuple(<<Str(TITLES \o <<47, 47>> \o TITLE), Str(<<84>>)>>),
     PyNone}

TreeValues == StrValues \cup StructuredValues

InitTree ==
    /\ pc = "assembling"
    /\ TreeIdle
    /\ AnvlIdle
    /\ InterpIdle
    /\ RunIdle

\* datacite_root = set_datacite_value(datacite_root, destination, value)
Assign(path, value) ==
    /\ pc = "assembling"
    /\ Len(calls) < MaxAssigns
    /\ LET r == set_datacite_value(datacite_root, path, value)
       IN  /\ datacite_root' = r.node
           /\ raised' = r.exc
           /\ pc' = IF r.exc = "" THEN "assembling" ELSE "failed"
    /\ before' = datacite_root
    /\ calls' = Append(calls, [path |-> path, value |-> value])
    /\ UNCHANGED <<anvlVars, interpVars, runVars>>

NextTree == \E path \in TreePaths, value \in TreeValues : Assign(path, value)

SpecTree == InitTree /\ [][NextTree]_vars

----------------------------------------------------------------------------
(* The interpolation run: one expression is interpolated with one row.     *)

MaxPieces == 2      \* placeholders and literals an expression is made of
MaxRowLen == 2      \* fields of a row

\* "$$", "$0" .. "$3", "${0}", "${1}", "${3}", "${1:s}", "${2:s}", "${1:t}",
\* "${1:e}", "${1:x}" (no such function), "${0:t}", "${3:t}", "x", " "
Pieces ==
    {<<36, 36>>, <<36, 48>>, <<36, 49>>, <<36, 50>>, <<36, 51>>,
     <<36, 123, 48, 125>>, <<36, 123, 49, 125>>, <<36, 123, 51, 125>>,
     <<36, 123, 49, 58, 115, 125>>, <<36, 123, 50, 58, 115, 125>>,
     <<36, 123, 49, 58, 116, 125>>, <<36, 123, 49, 58, 101, 125>>,
     <<36, 123, 49, 58, 120, 125>>, <<36, 123, 48, 58, 116, 125>>,
     <<36, 123, 51, 58, 116, 125>>, <<120>>, <<32>>}

Expressions == {Concat(ps) : ps \in SeqsOf(Pieces, 1, MaxPieces)}

\* "a", "b", " c "
Fields == {<<97>>, <<98>>, <<32, 99, 32>>}

Rows == SeqsOf(Fields, 0, MaxRowLen)

InitInterp ==
    /\ pc = "interpolate"
    /\ the_expression \in Expressions
    /\ the_row \in Rows
    /\ interpolated = [exc |-> "", val |-> PyNone]
    /\ AnvlIdle
    /\ TreeIdle
    /\ RunIdle

\* interpolated_value = interpolate(expression, row)
Interpolate ==
    /\ pc = "interpolate"
    /\ interpolated' = interpolate(the_expression, the_row)
    /\ pc' = "interpolated"
    /\ UNCHANGED <<the_expression, the_row, anvlVars, treeVars, runVars>>

NextInterp == Interpolate

SpecInterp == InitInterp /\ [][NextInterp]_vars

----------------------------------------------------------------------------
(* The batch run: main checks the arguments and resolves the output        *)
(* columns, then process_input reads the rows one at a time; each row is   *)
(* transformed and then either previewed or registered and reported.  Any  *)
(* exception reaches main's handler, which exits with status 1.            *)

MaxRows == 3        \* rows of an input file
MaxTokens == 2      \* comma-separated tokens of an output column argument

\* "$1", "$2", "${1:e}"
COLUMN_1 == <<36, 49>>
COLUMN_2 == <<36, 50>>
CALL_E_1 == <<36, 123, 49, 58, 101, 125>>

\* title = $1 and /resource/titles/title = $1;
\* _id = $1 and title = ${1:e}, where e raises for the field "b";
\* title = $2
TitleRules == <<<<TITLE, COLUMN_1>>, <<PATH_TITLE, COLUMN_1>>>>
IdRules == <<<<UNDERSCORE_ID, COLUMN_1>>, <<TITLE, CALL_E_1>>>>
SecondColumnRules == <<<<TITLE, COLUMN_2>>>>

RuleSets == {TitleRules, IdRules, SecondColumnRules}

\* "_n,_id,_error", the default of -o
DEFAULT_COLUMNS == UNDERSCORE_N \o <<44>> \o UNDERSCORE_ID \o <<44>> \o UNDERSCORE_ERROR

\* "u:p" and "ark:/9/"
CREDENTIALS == <<117, 58, 112>>
SHOULDER == <<97, 114, 107, 58, 47, 57, 47>>

\* "a", "b"; rows of one or two fields
RunFields == {<<97>>, <<98>>}
RunRows == SeqsOf(RunFields, 1, 1) \cup {<<<<97>>, <<98>>>>}

\* -o: the default, "2", "title"
ColumnSpecs == {DEFAULT_COLUMNS, <<50>>, TITLE}

\* "_n", "_id", "_error", "0", "1", "3", "title", "x"
Tokens == {UNDERSCORE_N, UNDERSCORE_ID, UNDERSCORE_ERROR, <<48>>, <<49>>, <<51>>,
           TITLE, <<120>>}

\* ",".join(tokens)
RECURSIVE comma_join(_)
comma_join(tokens) ==
    IF Len(tokens) = 1 THEN tokens[1]
    ELSE tokens[1] \o <<44>> \o comma_join(Tail(tokens))

\* the arguments main parses; outputColumns holds the list main stores
\* there, columns the string that was given
InitRun ==
    /\ pc = "main"
    /\ run_args \in [operation : {"mint", "create"},
                     credentials : {None, Some(CREDENTIALS)},
                     shoulder : {None, Some(SHOULDER)},
                     previewMode : BOOLEAN,
                     removeIdMapping : BOOLEAN,
                     columns : ColumnSpecs,
                     outputColumns : {<<>>}]
    /\ run_mappings \in RuleSets
    /\ input_rows \in SeqsOf(RunRows, 0, MaxRows)
    /\ RunStart
    /\ AnvlIdle
    /\ TreeIdle
    /\ InterpIdle

\* the runs that differ in the output column argument
InitResolve ==
    /\ pc = "main"
    /\ run_args \in [operation : {"mint"},
                     credentials : {Some(CREDENTIALS)},
                     shoulder : {Some(SHOULDER)},
                     previewMode : BOOLEAN,
                     removeIdMapping : {FALSE},
                     columns : {comma_join(ts) : ts \in SeqsOf(Tokens, 1, MaxTokens)},
                     outputColumns : {<<>>}]
    /\ run_mappings \in RuleSets
    /\ input_rows \in {<<>>, <<<<<<97>>>>>>, <<<<<<97>>, <<98>>>>>>}
    /\ RunStart
    /\ AnvlIdle
    /\ TreeIdle
    /\ InterpIdle

\* sys.exit(1) after an exception reached main's handler
Abort(raised_by, message, n, line) ==
    /\ pc' = "aborted"
    /\ failure' = [raised_by |-> raised_by, message |-> message, record |-> n,
                   line |-> line]

\* main up to the call of process_input
Main ==
    /\ pc = "main"
    /\ LET resolved(parsed) ==
               IF parsed.exc # ""
               THEN Abort("parse_output_columns", parsed.exc, 0, 0)
                        /\ UNCHANGED run_args
               ELSE /\ run_args' = [run_args EXCEPT !.outputColumns = parsed.val]
                    /\ pc' = "next_row"
                    /\ UNCHANGED failure
       IN  IF ~run_args.previewMode /\ run_args.credentials = None
           THEN Abort("main", "Operation requires -c argument", 0, 0)
                    /\ UNCHANGED run_args
           ELSE IF run_args.operation = "mint" /\ run_args.shoulder = None
           THEN Abort("main", "Operation requires -s argument", 0, 0)
                    /\ UNCHANGED run_args
           ELSE IF /\ run_args.operation \in {"create", "update"}
                   /\ \A i \in 1..Len(run_mappings) :
                          run_mappings[i][1] # UNDERSCORE_ID
           THEN Abort("main", "Operation requires mapping to _id", 0, 0)
                    /\ UNCHANGED run_args
           ELSE resolved(parse_output_columns(run_args.columns, run_mappings))
    /\ UNCHANGED <<run_mappings, input_rows, record_num, num_columns, cur_record,
                   cur_root, outcome, sunk, stdout>>
    /\ UNCHANGED <<anvlVars, treeVars, interpVars>>

\* process_input reads past the width check without comparing the widths
NextRow_unchecked ==
    /\ pc = "next_row"
    /\ IF record_num = Len(input_rows)
       THEN /\ pc' = "done"
            /\ UNCHANGED <<record_num, num_columns, failure>>
       ELSE /\ record_num' = record_num + 1
            /\ num_columns' = IF record_num = 0 THEN Len(input_rows[1])
                              ELSE num_columns
            /\ pc' = "transform"
            /\ UNCHANGED failure
    /\ UNCHANGED <<run_args, run_mappings, input_rows, cur_record, cur_root,
                   outcome, sunk, stdout>>
    /\ UNCHANGED <<anvlVars, treeVars, interpVars>>

\* process_input: the head of the loop and the checks on the row's width
NextRow ==
    /\ pc = "next_row"
    /\ IF record_num = Len(input_rows)
       THEN /\ pc' = "done"
            /\ UNCHANGED <<record_num, num_columns, failure>>
       ELSE LET n == record_num + 1
                width == IF n = 1 THEN Len(input_rows[n]) ELSE num_columns
                int_columns == {run_args.outputColumns[i].val :
                                    i \in {j \in 1..Len(run_args.outputColumns) :
                                        run_args.outputColumns[j].type = "int"}}
            IN  /\ record_num' = n
                /\ num_columns' = width
                /\ IF n = 1 /\ \E c \in int_columns : c >= width
                   THEN Abort("process_input",
                              "Argument -o: input column reference exceeds number of columns",
                              0, 0)
                   ELSE IF Len(input_rows[n]) # width
                   THEN Abort("process_input", "Inconsistent number of columns", n, 0)
                   ELSE /\ pc' = "transform"
                        /\ UNCHANGED failure
    /\ UNCHANGED <<run_args, run_mappings, input_rows, cur_record, cur_root,
                   outcome, sunk, stdout>>
    /\ UNCHANGED <<anvlVars, treeVars, interpVars>>

\* record = transform_data(args, mappings, row)
Transform ==
    /\ pc = "transform"
    /\ LET transformed(r) ==
               IF r.exc # ""
               THEN /\ Abort("transform_data", r.exc, record_num, r.line)
                    /\ UNCHANGED <<cur_record, cur_root>>
               ELSE /\ cur_record' = r.md
                    /\ cur_root' = r.root
                    /\ pc' = IF run_args.previewMode THEN "preview" ELSE "register"
                    /\ UNCHANGED failure
       IN  transformed(transform_data(run_args, run_mappings,
                                      input_rows[record_num]))
    /\ UNCHANGED <<run_args, run_mappings, input_rows, record_num, num_columns,
                   outcome, sunk, stdout>>
    /\ UNCHANGED <<anvlVars, treeVars, interpVars>>

\* print("\n" + to_anvl(record))
Preview ==
    /\ pc = "preview"
    /\ stdout' = Append(stdout, [n |-> record_num, kind |-> "preview",
                                 val |-> <<<<10>> \o to_anvl(cur_record) \o <<10>>>>])
    /\ pc' = "next_row"
    /\ UNCHANGED <<run_args, run_mappings, input_rows, record_num, num_columns,
                   cur_record, cur_root, outcome, sunk, failure>>
    /\ UNCHANGED <<anvlVars, treeVars, interpVars>>

\* identifier, error = process_record(args, record), the service answering
\* with success or with an error
Register(response) ==
    /\ pc = "register"
    /\ LET sent(request) ==
               /\ sunk' = Append(sunk, [n |-> record_num, data |-> request.data])
               /\ cur_record' = request.rec
               /\ outcome' = process_record_result(request.identifier, response)
       IN  sent(process_record_request(run_args, cur_record))
    /\ pc' = "write"
    /\ UNCHANGED <<run_args, run_mappings, input_rows, record_num, num_columns,
                   cur_root, stdout, failure>>
    /\ UNCHANGED <<anvlVars, treeVars, interpVars>>

\* the output row is formed but stays in a buffer that is lost on exit
WriteRow_unflushed ==
    /\ pc = "write"
    /\ pc' = "next_row"
    /\ UNCHANGED <<run_args, run_mappings, input_rows, record_num, num_columns,
                   cur_record, cur_root, outcome, sunk, stdout, failure>>
    /\ UNCHANGED <<anvlVars, treeVars, interpVars>>

\* writer.writerow(form_output_row(...)); sys.stdout.flush()
WriteRow ==
    /\ pc = "write"
    /\ LET written(r) ==
               IF r.exc # ""
               THEN /\ Abort("form_output_row", r.exc, record_num, 0)
                    /\ UNCHANGED stdout
               ELSE /\ stdout' = Append(stdout, [n |-> record_num, kind |-> "row",
                                                 val |-> r.val])
                    /\ pc' = "next_row"
                    /\ UNCHANGED failure
       IN  written(form_output_row(run_args, input_rows[record_num], cur_record,
                                   record_num, outcome))
    /\ UNCHANGED <<run_args, run_mappings, input_rows, record_num, num_columns,
                   cur_record, cur_root, outcome, sunk>>
    /\ UNCHANGED <<anvlVars, treeVars, interpVars>>

NextRun ==
    \/ Main
    \/ NextRow
    \/ Transform
    \/ Preview
    \/ \E response \in {"success", "error"} : Register(response)
    \/ WriteRow

SpecRun == InitRun /\ [][NextRun]_vars

SpecResolve == InitResolve /\ [][NextRun]_vars

----------------------------------------------------------------------------
(* transform_data called on its own, with one row and with mappings that   *)
(* need not have come through load_mappings.                               *)

\* "/.@identifierType": the element of empty name under the root and its
\* attribute identifierType
PATH_DOT_IDENTIFIER_TYPE == <<47, 46, 64>> \o IDENTIFIER_TYPE

\* "doi:10.5/X"
DOI_SHOULDER == <<100, 111, 105, 58, 49, 48, 46, 53, 47, 88>>

FinalizeRuleSets ==
    {<<<<PATH_TITLE, COLUMN_1>>>>,
     <<<<PATH_DOT_IDENTIFIER_TYPE, COLUMN_1>>>>,
     <<<<UNDERSCORE_ID, COLUMN_2>>, <<PATH_TITLE, COLUMN_1>>>>,
     <<<<UNDERSCORE_ID, COLUMN_2>>, <<PATH_DOT_IDENTIFIER_TYPE, COLUMN_1>>>>,
     <<<<TITLE, COLUMN_1>>>>,
     TitleRules}

\* rows of two fields: "a", "b" or " ", then an ARK, a DOI or "a"
FinalizeRows ==
    {<<f, g>> : f \in {<<97>>, <<98>>, <<32>>},
                g \in {ASSIGNED_IDENTIFIER, DOI_SHOULDER, <<97>>}}

InitFinalize ==
    /\ pc = "transform_data"
    /\ run_args \in [operation : {"mint", "create", "update"},
                     credentials : {None},
                     shoulder : {Some(SHOULDER), Some(DOI_SHOULDER)},
                     previewMode : {TRUE},
                     removeIdMapping : {FALSE},
                     columns : {<<>>},
                     outputColumns : {<<>>}]
    /\ run_mappings \in FinalizeRuleSets
    /\ \E row \in FinalizeRows : input_rows = <<row>>
    /\ RunStart
    /\ AnvlIdle
    /\ TreeIdle
    /\ InterpIdle

\* transform_data(args, mappings, row) returns or raises
TransformData ==
    /\ pc = "transform_data"
    /\ LET called(r) ==
               /\ cur_record' = r.md
               /\ cur_root' = r.root
               /\ pc' = IF r.exc = "" THEN "returned" ELSE "raised"
               /\ failure' = IF r.exc = "" THEN failure
                             ELSE [raised_by |-> "transform_data", message |-> r.exc,
                                   record |-> 0, line |-> r.line]
       IN  called(transform_data(run_args, run_mappings, input_rows[1]))
    /\ UNCHANGED <<run_args, run_mappings, input_rows, record_num, num_columns,
                   outcome, sunk, stdout>>
    /\ UNCHANGED <<anvlVars, treeVars, interpVars>>

NextFinalize == TransformData

SpecFinalize == InitFinalize /\ [][NextFinalize]_vars

----------------------------------------------------------------------------
(* Claims about the ANVL codec.                                            *)

\* two dicts hold the same keys with the same values (Python's == between
\* an OrderedDict and a dict)
same_mapping(d, e) ==
    /\ dict_keys(d) = dict_keys(e)
    /\ \A k \in dict_keys(d) : dict_value(d, k) = dict_value(e, k)

\* C1: for every record with no empty key and no empty value, decoding the
\* text produced by encoding it yields exactly that record: the same key set
\* and the same value for each key.
C1_RoundTrip ==
    pc = "roundtrip" => same_mapping(metadata, record)

\* what C2 says a decoded line contributes: the text before the first ':'
\* and everything after it, each percent-decoded and trimmed
line_key(line) ==
    strip(unescape_anvl(SubSeq(line, 1, find_char(line, 58, 1) - 1)))

line_value(line) ==
    strip(unescape_anvl(SubSeq(line, find_char(line, 58, 1) + 1, Len(line))))

line_kept(line) ==
    /\ 58 \in Range(line)
    /\ line_key(line) # <<>>
    /\ line_value(line) # <<>>

\* C2: decoding any text splits every line on the first ':' only, decodes
\* and trims both sides, ignores lines without ':' and drops entries whose
\* key or value is empty; the result holds exactly the remaining keys, each
\* with its full decoded value (the last line of a key deciding).
C2_DecodeFirstColon ==
    pc \in {"decoded", "roundtrip"} =>
        LET lines == splitlines(utf8_decode(anvl))
            kept == {i \in 1..Len(lines) : line_kept(lines[i])}
        IN  /\ dict_keys(metadata) = {line_key(lines[i]) : i \in kept}
            /\ Cardinality(dict_keys(metadata)) = Len(metadata)
            /\ \A i \in kept :
                   (\A j \in kept : j > i => line_key(lines[j]) # line_key(lines[i]))
                       => dict_value(metadata, line_key(lines[i])) = line_value(lines[i])

\* the packaged copy alone (src/ezid_client_tools/utils.py) decodes as C2 says
C2_PackagedDecodes == impl = "packaged" => C2_DecodeFirstColon

\* a string the codec carries unchanged: trimmed, and holding no line
\* boundary that to_anvl leaves unescaped
anvl_safe(str) ==
    /\ strip(str) = str
    /\ Range(str) \cap (LineBoundaries \ {10, 13}) = {}

\* the round trip of C1 as the packaged copy does keep it
C1_PackagedRoundTripOfTrimmed ==
    (/\ pc = "roundtrip"
     /\ impl = "packaged"
     /\ \A i \in 1..Len(record) : anvl_safe(record[i][1]) /\ anvl_safe(record[i][2]))
        => same_mapping(metadata, record)

----------------------------------------------------------------------------
(* Claims about the tree builder.                                          *)

RECURSIVE no_duplicate_children(_)
no_duplicate_children(e) ==
    /\ \A i, j \in 1..Len(e.children) :
           i # j => e.children[i].tag # e.children[j].tag
    /\ \A i \in 1..Len(e.children) : no_duplicate_children(e.children[i])

\* every node the path elements lead to from e, following all the children
\* of each name
RECURSIVE nodes_at(_, _)
nodes_at(e, path_elements) ==
    IF path_elements = <<>> THEN <<e>>
    ELSE IF Head(path_elements) = <<46>> THEN nodes_at(e, Tail(path_elements))
    ELSE Concat([i \in 1..Len(e.children) |->
                    IF e.children[i].tag = q(Head(path_elements))
                    THEN nodes_at(e.children[i], Tail(path_elements))
                    ELSE <<>>])

\* the last two calls wrote strings to the same path, one without attribute
last_two_same_path ==
    /\ Len(calls) >= 2
    /\ calls[Len(calls)].path = calls[Len(calls) - 1].path
    /\ 64 \notin Range(calls[Len(calls)].path)
    /\ calls[Len(calls)].value.type = "str"
    /\ calls[Len(calls) - 1].value.type = "str"

\* C3 as stated: no element has two direct children of the same tag name,
\* and assigning two non-empty strings T then U to the same path leaves
\* exactly one node for that path, its text U.
C3_MergeByNameAnyNonEmpty ==
    /\ datacite_root # None => no_duplicate_children(datacite_root[1])
    /\ (/\ last_two_same_path
        /\ calls[Len(calls) - 1].value.val # <<>>
        /\ calls[Len(calls)].value.val # <<>>)
           => /\ datacite_root # None
              /\ LET nodes == nodes_at(datacite_root[1],
                                       split(calls[Len(calls)].path, 47))
                 IN  /\ Len(nodes) = 1
                     /\ nodes[1].text = Some(calls[Len(calls)].value.val)

\* C3, amended: no element has two direct children of the same tag name,
\* and assigning two strings T then U, both non-empty after trimming, to the
\* same path leaves exactly one node for that path, its text the trimmed U.
C3_MergeByName ==
    /\ datacite_root # None => no_duplicate_children(datacite_root[1])
    /\ (/\ last_two_same_path
        /\ strip(calls[Len(calls) - 1].value.val) # <<>>
        /\ strip(calls[Len(calls)].value.val) # <<>>)
           => /\ datacite_root # None
              /\ LET nodes == nodes_at(datacite_root[1],
                                       split(calls[Len(calls)].path, 47))
                 IN  /\ Len(nodes) = 1
                     /\ nodes[1].text = Some(strip(calls[Len(calls)].value.val))

\* "T" then "U" were assigned to /resource/titles/title
C3_Witness ==
    /\ Len(calls) >= 2
    /\ calls[Len(calls) - 1] = [path |-> PATH_TITLE, value |-> Str(<<84>>)]
    /\ calls[Len(calls)] = [path |-> PATH_TITLE, value |-> Str(<<85>>)]
    /\ raised = ""

\* C4: assigning a string that is empty after trimming, to any path and
\* against any document, returns and leaves the document unchanged; an
\* absent document stays absent.
C4_EmptyValueNoOp ==
    (/\ calls # <<>>
     /\ calls[Len(calls)].value.type = "str"
     /\ strip(calls[Len(calls)].value.val) = <<>>)
        => /\ raised = ""
           /\ datacite_root = before

\* " " was assigned to /resource/titles/title@lang of an existing document
C4_Witness ==
    /\ calls # <<>>
    /\ calls[Len(calls)] = [path |-> PATH_TITLE_LANG, value |-> Str(<<32>>)]
    /\ before # None
    /\ datacite_root = before

\* "" was assigned first, to no document, and there is still none
C4_WitnessAbsent ==
    /\ Len(calls) = 1
    /\ calls[1].value = Str(<<>>)
    /\ datacite_root = None

----------------------------------------------------------------------------
(* Claims about interpolate.                                               *)

\* the placeholders of an expression, as re.sub finds them: <<start, length>>
RECURSIVE matches_from(_, _)
matches_from(s, i) ==
    IF i > Len(s) THEN <<>>
    ELSE IF match_at(s, i) = 0 THEN matches_from(s, i + 1)
    ELSE <<<<i, match_at(s, i)>>>> \o matches_from(s, i + match_at(s, i))

match_text(s, m) == SubSeq(s, m[1], m[1] + m[2] - 1)

\* the placeholder is ${N:name}
is_function_ref(match_str) == 58 \in Range(match_str)

\* the placeholder is $N or ${N}
is_column_ref(match_str) == match_str # <<36, 36>> /\ ~is_function_ref(match_str)

\* N of $N, ${N} or ${N:name}
column_of(match_str) ==
    to_int(SelectSeq(SubSeq(match_str, 1,
                            IF is_function_ref(match_str)
                            THEN find_char(match_str, 58, 1)
                            ELSE Len(match_str)),
                     is_digit))

\* the function of the placeholder returns a structured value for this row
returns_structured(match_str) ==
    /\ is_function_ref(match_str)
    /\ column_of(match_str) \in 1..Len(the_row)
    /\ LET call == call_function(
                       SubSeq(match_str, find_char(match_str, 58, 1) + 1,
                              Len(match_str) - 1),
                       <<the_row[column_of(match_str)]>>)
       IN  call.exc = "" /\ call.val.type # "str"

\* C6: a structured function result is accepted only when the placeholder
\* is the entire expression; with any other text or placeholder beside it,
\* interpolate fails: the result is never dropped or replaced by empty text.
C6_StructuredOnlyWhole ==
    pc = "interpolated" =>
        \A i \in 1..Len(matches_from(the_expression, 1)) :
            LET match_str == match_text(the_expression, matches_from(the_expression, 1)[i])
            IN  (returns_structured(match_str) /\ match_str # the_expression)
                    => interpolated.exc # ""

\* C7: a placeholder $N or ${N} with 1 <= N <= len(row) is replaced by
\* row[N-1], and with N outside that range interpolate fails instead of
\* returning a field of the row.
C7_ColumnBounds ==
    pc = "interpolated" =>
        \A i \in 1..Len(matches_from(the_expression, 1)) :
            LET match_str == match_text(the_expression, matches_from(the_expression, 1)[i])
                N == column_of(match_str)
            IN  is_column_ref(match_str) =>
                    /\ N \notin 1..Len(the_row) => interpolated.exc # ""
                    /\ (N \in 1..Len(the_row) /\ match_str = the_expression)
                           => interpolated = [exc |-> "", val |-> Str(strip(the_row[N]))]

\* the part of C7 the code keeps: a reference within the row is replaced by
\* that field, and one beyond the end of the row fails
C7_InRangeAndBeyond ==
    pc = "interpolated" =>
        \A i \in 1..Len(matches_from(the_expression, 1)) :
            LET match_str == match_text(the_expression, matches_from(the_expression, 1)[i])
                N == column_of(match_str)
            IN  is_column_ref(match_str) =>
                    /\ N > Len(the_row) => interpolated.exc # ""
                    /\ (N \in 1..Len(the_row) /\ match_str = the_expression)
                           => interpolated = [exc |-> "", val |-> Str(strip(the_row[N]))]

----------------------------------------------------------------------------
(* Claims about the transformation of a row.                               *)

\* a row was transformed under the rules title = $1 and
\* /resource/titles/title = $1
title_row_transformed ==
    /\ pc \in {"preview", "register"}
    /\ run_mappings = TitleRules

\* C5: for the rules title = $1 and /resource/titles/title = $1 and a row
\* whose first field is a non-empty string v, the record has the flat field
\* title = v and its serialized document has, under the root resource
\* element, a titles element with a title child whose text is v: the path
\* /resource/titles/title leads from the root to titles to title.
C5_PathPlacement ==
    title_row_transformed =>
        LET v == input_rows[record_num][1]
        IN  /\ TITLE \in dict_keys(cur_record)
            /\ dict_value(cur_record, TITLE) = v
            /\ cur_root # None
            /\ cur_root[1].tag = q(RESOURCE)
            /\ DATACITE \in dict_keys(cur_record)
            /\ dict_value(cur_record, DATACITE) = tostring(cur_root[1])
            /\ \E i \in 1..Len(cur_root[1].children) :
                   /\ cur_root[1].children[i].tag = q(TITLES)
                   /\ \E j \in 1..Len(cur_root[1].children[i].children) :
                          /\ cur_root[1].children[i].children[j].tag = q(TITLE)
                          /\ cur_root[1].children[i].children[j].text = Some(v)

\* the flat field and the serialized document are as C5 says, the title
\* apart, which is found under an element of empty name and a second
\* resource element
C5_FlatFieldAndNestedTitle ==
    title_row_transformed =>
        LET v == input_rows[record_num][1]
            titles == nodes_at(cur_root[1], <<<<>>, RESOURCE, TITLES, TITLE>>)
        IN  /\ dict_value(cur_record, TITLE) = v
            /\ dict_value(cur_record, DATACITE) = tostring(cur_root[1])
            /\ Len(titles) = 1
            /\ titles[1].text = Some(v)

----------------------------------------------------------------------------
(* Claims about the output columns.                                        *)

Reserved == {UNDERSCORE_N, UNDERSCORE_ID, UNDERSCORE_ERROR}

\* the flat-key destinations of the loaded rules
flat_keys == {run_mappings[i][1] : i \in {j \in 1..Len(run_mappings) :
                  ~starts_with(run_mappings[j][1], <<47>>)}}

\* the tokens of the -o argument
tokens_given == split(run_args.columns, 44)

\* a token that names a reserved selector, a 1-based column or a flat key
resolvable(token) ==
    \/ token \in Reserved
    \/ isnumeric(token) /\ to_int(token) >= 1
    \/ token \in flat_keys

\* the selector a token stands for; a column is held by its 0-based index
selector_of(token) ==
    IF token \notin Reserved /\ isnumeric(token) THEN PyInt(to_int(token) - 1)
    ELSE Str(token)

resolve_failed == pc = "aborted" /\ failure.raised_by = "parse_output_columns"

resolve_returned == pc \notin {"main", "aborted"} \/ (pc = "aborted" /\ record_num > 0)

\* C8: resolving the output columns either fails before any row is read or
\* returns exactly one selector per comma-separated token, in token order,
\* each the reserved selector, the column or the flat key the token names;
\* a token that names none of these always causes the failure.
C8_OneSelectorPerToken ==
    /\ resolve_failed => record_num = 0 /\ sunk = <<>> /\ stdout = <<>>
    /\ resolve_returned =>
           /\ Len(run_args.outputColumns) = Len(tokens_given)
           /\ \A i \in 1..Len(tokens_given) :
                  run_args.outputColumns[i] = selector_of(tokens_given[i])
    /\ (pc # "main" /\ \E i \in 1..Len(tokens_given) : ~resolvable(tokens_given[i]))
           => resolve_failed

\* what holds of the code: a failure comes before any row is read, and a
\* token that names nothing always causes it
C8_UnresolvableTokenFails ==
    /\ resolve_failed => record_num = 0 /\ sunk = <<>> /\ stdout = <<>>
    /\ (pc # "main" /\ \E i \in 1..Len(tokens_given) : ~resolvable(tokens_given[i]))
           => resolve_failed

----------------------------------------------------------------------------
(* Claims about the run.                                                   *)

transform_failed == pc = "aborted" /\ failure.raised_by = "transform_data"

\* the request process_record sends for the j-th row
request_of(j) ==
    process_record_request(run_args,
        transform_data(run_args, run_mappings, input_rows[j]).md).data

\* the rows before the k-th were handed to the sink, in input order
handed_in_order(k) ==
    /\ Len(sunk) = k - 1
    /\ \A j \in 1..(k - 1) : sunk[j].n = j /\ sunk[j].data = request_of(j)

\* the rows before the k-th each wrote one item of that kind, in input order
emitted_in_order(k, kind) ==
    /\ Len(stdout) = k - 1
    /\ \A j \in 1..(k - 1) : stdout[j].n = j /\ stdout[j].kind = kind

\* C9 as stated: if the transformation of row k fails, rows 1..k-1 have
\* been transformed, handed to the sink and had their output row emitted,
\* in input order; row k and the rows after it are never handed to the sink
\* and produce no output row; the run is aborted and row k is not retried.
C9_FailFastPrefixAnyMode ==
    transform_failed =>
        /\ record_num = failure.record
        /\ handed_in_order(failure.record)
        /\ emitted_in_order(failure.record, "row")

\* C9, amended: the same when the run is not in preview mode; in preview
\* mode rows 1..k-1 have been transformed and had their preview text
\* written, and no row is handed to the sink.
C9_FailFastPrefix ==
    transform_failed =>
        /\ record_num = failure.record
        /\ IF run_args.previewMode
           THEN sunk = <<>> /\ emitted_in_order(failure.record, "preview")
           ELSE /\ handed_in_order(failure.record)
                /\ emitted_in_order(failure.record, "row")

\* the transformation of the second of three rows failed in a registering
\* run
C9_Witness ==
    /\ transform_failed
    /\ ~run_args.previewMode
    /\ failure.record = 2
    /\ Len(input_rows) = 3
    /\ Len(sunk) = 1
    /\ Len(stdout) = 1

\* the same in a preview run
C9_WitnessPreview ==
    /\ transform_failed
    /\ run_args.previewMode
    /\ failure.record = 2
    /\ Len(stdout) = 1

\* the j-th row has been read and its width differs from the first row's
width_differs(j) == j \in 1..record_num /\ Len(input_rows[j]) # num_columns

\* C10 as stated: a row whose number of fields differs from the width of
\* the first row does not abort the whole run.
C10_WidthMismatchIsPerRecord ==
    \A j \in 1..Len(input_rows) : width_differs(j) => pc # "aborted"

\* C10, amended: a row whose number of fields differs from the width of the
\* first row is reported as an error of that record and aborts the whole
\* run: the row and the rows that follow it are not processed.
C10_WidthMismatchAborts ==
    \A j \in 1..Len(input_rows) : width_differs(j) =>
        /\ pc = "aborted"
        /\ failure = [raised_by |-> "process_input",
                      message |-> "Inconsistent number of columns",
                      record |-> j, line |-> 0]
        /\ record_num = j
        /\ \A i \in 1..Len(sunk) : sunk[i].n < j
        /\ \A i \in 1..Len(stdout) : stdout[i].n < j

\* the second of three rows is wider than the first, which was registered
C10_Witness ==
    /\ width_differs(2)
    /\ Len(input_rows) = 3
    /\ Len(sunk) = 1
    /\ Len(stdout) = 1

----------------------------------------------------------------------------
(* Claims about the documents the tree builder leaves.                     *)

\* e and every element under it has text or children, not both
RECURSIVE text_or_children(_)
text_or_children(e) ==
    /\ e.text = None \/ e.children = <<>>
    /\ \A i \in 1..Len(e.children) : text_or_children(e.children[i])

\* C11: in every document a sequence of assignments builds (string or
\* structured values, relative paths with '.' included), every element has
\* either text content or child elements, never both.
C11_TextOrChildren ==
    (datacite_root # None /\ raised = "") => text_or_children(datacite_root[1])

\* what holds of the code: an element has both only when a value was
\* assigned to its own path, by an earlier call or through '.'
C11_TextWhereAssigned ==
    (/\ datacite_root # None
     /\ raised = ""
     /\ \A i \in 1..Len(calls) :
            /\ calls[i].path = PATH_TITLE
            /\ calls[i].value.type = "str")
        => text_or_children(datacite_root[1])

----------------------------------------------------------------------------
(* Claims about the finalization of the document.                          *)

\* what decides the identifier type: the shoulder when minting, the
\* record's _id otherwise
type_deciding ==
    IF run_args.operation = "mint" THEN run_args.shoulder[1]
    ELSE dict_value(cur_record, UNDERSCORE_ID)

expected_identifier_type ==
    IF starts_with(type_deciding, ARK_PREFIX) THEN ARK ELSE DOI

\* the identifierType of the i-th child of the root
identifier_type_at(i) == dict_value(cur_root[1].children[i].attrib, IDENTIFIER_TYPE)

C12_FirstIdentifierTypeSet ==
    (pc = "returned" /\ cur_root # None) =>
        /\ findall_identifierType(cur_root[1]) # <<>>
        /\ identifier_type_at(findall_identifierType(cur_root[1])[1])
               = expected_identifier_type

\* in a run, where the destinations have passed load_mappings, the document
\* of a transformed row has exactly one such node, set as C12 says
C12_SingleInRun ==
    (pc \in {"preview", "register"} /\ cur_root # None) =>
        /\ Len(findall_identifierType(cur_root[1])) = 1
        /\ identifier_type_at(1) = expected_identifier_type

====
